---- MODULE Spec2Model ----
(***************************************************************************)
(* A model of brain-engine-core: the Direction / MapTile value types, the  *)
(* default tile generator, and the Map that drives generation and answers  *)
(* movement queries.                                                       *)
(*                                                                         *)
(* Conventions                                                             *)
(*   - an IVec2 is a pair <<x, y>>;                                        *)
(*   - a Direction is one of the four strings of Direction::all();         *)
(*   - a MapTile is its u8 discriminant, 0..15;                            *)
(*   - a Tile is a record [tile_set, map_tile];                            *)
(*   - an Option is a sequence: <<>> for None, <<v>> for Some(v);          *)
(*   - an f64 probability p is the integer 100 * p (0.35 is 35), and one   *)
(*     output of a random source is an integer sample in 0..99.            *)
(***************************************************************************)
EXTENDS Integers, Sequences, FiniteSets, TLC

VARIABLES
    generator,   \* the Map's generator: configuration and random state
    size,        \* Map.size (= Map.x = Map.y)
    tiles,       \* Map.tiles: a function from the stored coordinates to tiles
    cursor,      \* Map::new: how many coordinates of the scan are done
    pc,          \* where the program is: "new", "ready", "call", "panicked", ...
    given,       \* Map::new: the arguments of each tile_at call made so far
    twin,        \* a second, independently constructed Map (or NoTwin)
    last_query,  \* the can_move call in progress: <<>> or <<[from, to, result]>>
    edits,       \* how many times a caller wrote to Map.tiles directly
    calls,       \* the results of the tile_at calls made on both generators directly
    input,       \* the slice handed to from_directions
    output,      \* what from_directions returned for it: <<>> before the call
    exits,       \* what directions() returned for the tile of output: <<>> or <<seq>>
    back,        \* what from_directions returned for exits: <<>> or <<option>>
    path,        \* the Direction methods applied so far, in order
    trail,       \* the directions they were applied to and returned, in order
    listing,     \* what each iterate_tiles call on the Map yielded, in order
    returned,    \* what each direct tile_at call on the generator returned, in order
    threads,     \* the threads inside tile_at on the shared generator, by thread
    mutex,       \* the Mutex around the seeded StdRng: its holder and its poison flag
    consumed     \* the outputs of the seeded sequence consumed, by whom, in order

vars == <<generator, size, tiles, cursor, pc, given, twin, calls, last_query, edits,
          input, output, exits, back, path, trail, listing, returned,
          threads, mutex, consumed>>

twinVars == <<twin, calls>>
callerVars == <<last_query, edits>>
sliceVars == <<input, output>>
tileVars == <<exits, back>>
directionVars == <<path, trail>>
resultVars == <<listing, returned>>
threadVars == <<threads, mutex, consumed>>

(***************************************************************************)
(* Bounds of the model.                                                    *)
(***************************************************************************)
MaxSize == 2    \* Map sizes 0..MaxSize
MaxSeed == 2    \* seeds 0..MaxSeed
MaxEdits == 2   \* direct writes to Map.tiles after construction
MaxLen == 5     \* length of the slices handed to from_directions
MaxCalls == 2   \* direct tile_at calls on a pair of generators
MaxPath == 4    \* Direction methods applied one after the other
MaxDirect == 1  \* direct tile_at calls on one generator
MaxIterations == 2  \* iterate_tiles calls on one Map

(***************************************************************************)
(* Direction                                                               *)
(***************************************************************************)
Direction == {"North", "East", "South", "West"}

\* A mutant of all: the directions from West back to North.
all_Reversed == <<"West", "South", "East", "North">>

\* Direction::all(): the canonical order.
all == <<"North", "East", "South", "West">>

\* `dir as u8`: the discriminant of a Direction.
AsU8(d) ==
    CASE d = "North" -> 1
      [] d = "East" -> 2
      [] d = "South" -> 4
      [] d = "West" -> 8

\* A mutant of opposite: East and West are not swapped.
opposite_EastWestFixed(d) ==
    CASE d = "North" -> "South"
      [] d = "East" -> "East"
      [] d = "South" -> "North"
      [] d = "West" -> "West"

opposite(d) ==
    CASE d = "North" -> "South"
      [] d = "East" -> "West"
      [] d = "South" -> "North"
      [] d = "West" -> "East"

\* A mutant of rotate_clockwise: a reflection, North and East change places
\* and so do South and West.
rotate_clockwise_Reflected(d) ==
    CASE d = "North" -> "East"
      [] d = "East" -> "North"
      [] d = "South" -> "West"
      [] d = "West" -> "South"

\* Direction::rotate_clockwise.
rotate_clockwise(d) ==
    CASE d = "North" -> "East"
      [] d = "East" -> "South"
      [] d = "South" -> "West"
      [] d = "West" -> "North"

\* A mutant of rotate_counter_clockwise: it turns the same way as
\* rotate_clockwise.
rotate_counter_clockwise_Clockwise(d) ==
    CASE d = "North" -> "East"
      [] d = "East" -> "South"
      [] d = "South" -> "West"
      [] d = "West" -> "North"

\* Direction::rotate_counter_clockwise.
rotate_counter_clockwise(d) ==
    CASE d = "North" -> "West"
      [] d = "East" -> "North"
      [] d = "South" -> "East"
      [] d = "West" -> "South"

\* The unit vector of a direction (tile_at's direction_vector; can_move's
\* match on delta is its inverse).
direction_vector(d) ==
    CASE d = "North" -> <<0, 1>>
      [] d = "East" -> <<1, 0>>
      [] d = "South" -> <<0, -1>>
      [] d = "West" -> <<-1, 0>>

\* IVec2 addition and subtraction.
Add(a, b) == <<a[1] + b[1], a[2] + b[2]>>
Sub(a, b) == <<a[1] - b[1], a[2] - b[2]>>

(***************************************************************************)
(* MapTile                                                                 *)
(***************************************************************************)
MapTile == 0..15

None == <<>>
Some(v) == <<v>>

Range(s) == {s[i] : i \in DOMAIN s}
Contains(s, e) == \E i \in DOMAIN s : s[i] = e

RECURSIVE SumU8(_)
SumU8(s) == IF s = <<>> THEN 0 ELSE (AsU8(Head(s)) + SumU8(Tail(s))) % 256

\* A mutant of from_directions: the duplicate check is missing.
from_directions_NoDuplicateCheck(dirs) ==
    IF Len(dirs) > 4 THEN None
    ELSE LET sum == SumU8(dirs)
         IN IF sum \in 0..15 THEN Some(sum) ELSE None

\* A mutant of from_directions: the length check is off by one.
from_directions_LengthOffByOne(dirs) ==
    IF Len(dirs) > 3 THEN None
    ELSE IF Cardinality(Range(dirs)) # Len(dirs) THEN None
    ELSE LET sum == SumU8(dirs)
         IN IF sum \in 0..15 THEN Some(sum) ELSE None

\* A mutant of from_directions: only slices written in the order North, East,
\* South, West are matched.
from_directions_OrderSensitive(dirs) ==
    IF Len(dirs) > 4 THEN None
    ELSE IF Cardinality(Range(dirs)) # Len(dirs) THEN None
    ELSE IF \E i, j \in DOMAIN dirs : i < j /\ AsU8(dirs[i]) > AsU8(dirs[j]) THEN None
    ELSE LET sum == SumU8(dirs)
         IN IF sum \in 0..15 THEN Some(sum) ELSE None

\* A mutant of from_directions: the empty slice is rejected.
from_directions_EmptyRejected(dirs) ==
    IF Len(dirs) = 0 \/ Len(dirs) > 4 THEN None
    ELSE IF Cardinality(Range(dirs)) # Len(dirs) THEN None
    ELSE LET sum == SumU8(dirs)
         IN IF sum \in 0..15 THEN Some(sum) ELSE None

\* MapTile::from_directions.
from_directions(dirs) ==
    IF Len(dirs) > 4 THEN None
    ELSE IF Cardinality(Range(dirs)) # Len(dirs) THEN None
    ELSE LET sum == SumU8(dirs)
         IN IF sum \in 0..15 THEN Some(sum) ELSE None

\* `bits & dir as u8 != 0`.
HasBit(bits, d) == (bits \div AsU8(d)) % 2 = 1

\* A mutant of directions: the West bit is never reported.
directions_WestMissing(bits) ==
    LET n == IF HasBit(bits, "North") THEN <<"North">> ELSE <<>>
        e == IF HasBit(bits, "East") THEN <<"East">> ELSE <<>>
        s == IF HasBit(bits, "South") THEN <<"South">> ELSE <<>>
    IN n \o e \o s

\* A mutant of directions: the bits are tested from West down to North.
directions_WestFirst(bits) ==
    LET n == IF HasBit(bits, "North") THEN <<"North">> ELSE <<>>
        e == IF HasBit(bits, "East") THEN <<"East">> ELSE <<>>
        s == IF HasBit(bits, "South") THEN <<"South">> ELSE <<>>
        w == IF HasBit(bits, "West") THEN <<"West">> ELSE <<>>
    IN w \o s \o e \o n

\* MapTile::directions: the exits in canonical order.
directions(bits) ==
    LET n == IF HasBit(bits, "North") THEN <<"North">> ELSE <<>>
        e == IF HasBit(bits, "East") THEN <<"East">> ELSE <<>>
        s == IF HasBit(bits, "South") THEN <<"South">> ELSE <<>>
        w == IF HasBit(bits, "West") THEN <<"West">> ELSE <<>>
    IN n \o e \o s \o w

(***************************************************************************)
(* Tile                                                                    *)
(***************************************************************************)
TileSet == {"Room", "Corridor"}

\* Tile::new(tile_set, map_tile).
Tile(tile_set, map_tile) == [tile_set |-> tile_set, map_tile |-> map_tile]

Tiles == {Tile(ts, mt) : ts \in TileSet, mt \in MapTile}

(***************************************************************************)
(* RandomSource                                                            *)
(***************************************************************************)
\* The n-th output (n = 0, 1, ...) of StdRng::seed_from_u64(seed): a fixed
\* sequence per seed.
StdRngSample(seed, n) ==
    ((seed + 1) * (n + 1) * 37 + n * n * 11 + seed * 53) % 100

\* Bernoulli::new(p) succeeds exactly for 0.0 <= p <= 1.0.
ValidProbability(p) == 0 <= p /\ p <= 100

\* A mutant of random_bool: the seeded source draws fresh entropy too.
random_bool_SeedIgnored(rng, probability) ==
    IF ~ValidProbability(probability)
    THEN {[panicked |-> TRUE, value |-> FALSE]}
    ELSE {[panicked |-> FALSE, value |-> sample < probability] : sample \in 0..99}

\* A mutant of random_bool: the sample is compared with <= instead of <.
random_bool_Inclusive(rng, probability) ==
    IF ~ValidProbability(probability)
    THEN {[panicked |-> TRUE, value |-> FALSE]}
    ELSE IF rng.source = "Thread"
    THEN {[panicked |-> FALSE, value |-> sample <= probability] : sample \in 0..99}
    ELSE {[panicked |-> FALSE, value |-> StdRngSample(rng.seed, rng.draws) <= probability]}

\* RandomSource::random_bool: the outcomes of one draw, for a source that has
\* made rng.draws draws. The thread source may give any sample, the seeded
\* source gives the next sample of its sequence; random_bool panics on a
\* probability outside [0, 1].
random_bool(rng, probability) ==
    IF ~ValidProbability(probability)
    THEN {[panicked |-> TRUE, value |-> FALSE]}
    ELSE IF rng.source = "Thread"
    THEN {[panicked |-> FALSE, value |-> sample < probability] : sample \in 0..99}
    ELSE {[panicked |-> FALSE, value |-> StdRngSample(rng.seed, rng.draws) < probability]}

(***************************************************************************)
(* TileGeneratorDefault and the generators of the tests                    *)
(***************************************************************************)
DefaultProbability == 35

Thread == [source |-> "Thread", seed |-> 0, draws |-> 0]
Seeded(seed) == [source |-> "Seeded", seed |-> seed, draws |-> 0]

NoTile == Tile("Room", 0)

new_with_rng(rng) ==
    [kind |-> "Default", tile |-> NoTile,
     tile_exit_probability |-> DefaultProbability,
     room_probability |-> DefaultProbability, rng |-> rng]

\* TileGeneratorDefault::new().
new == new_with_rng(Thread)

\* TileGeneratorDefault::with_seed(seed).
with_seed(seed) == new_with_rng(Seeded(seed))

\* TileGeneratorDefault::with_probabilities: the fields are stored as given.
with_probabilities(tile_exit_probability, room_probability) ==
    [kind |-> "Default", tile |-> NoTile,
     tile_exit_probability |-> tile_exit_probability,
     room_probability |-> room_probability, rng |-> Thread]

\* TileGeneratorDefault::with_seed_and_probabilities: the fields are stored
\* as given.
with_seed_and_probabilities(seed, tile_exit_probability, room_probability) ==
    [kind |-> "Default", tile |-> NoTile,
     tile_exit_probability |-> tile_exit_probability,
     room_probability |-> room_probability, rng |-> Seeded(seed)]

\* The tests' generators: StaticGenerator, RoomGenerator and
\* CorridorGenerator return one fixed tile, MixedGenerator a room on even x
\* and a corridor on odd x.
StaticGenerator(tile) ==
    [kind |-> "Static", tile |-> tile, tile_exit_probability |-> 0,
     room_probability |-> 0, rng |-> Thread]

MixedGenerator ==
    [kind |-> "Mixed", tile |-> NoTile, tile_exit_probability |-> 0,
     room_probability |-> 0, rng |-> Thread]

\* The probabilities a caller configures: 0.35 (the default), the two ends of
\* the range, and one value on each side outside it.
Probabilities == {-10, 0, DefaultProbability, 100, 150}

Seeds == 0..MaxSeed

SeededGenerators ==
    {with_seed(s) : s \in Seeds}
    \cup {with_seed_and_probabilities(s, pe, pr) :
            s \in Seeds, pe \in Probabilities, pr \in Probabilities}

DefaultGenerators ==
    {new} \cup SeededGenerators
    \cup {with_probabilities(pe, pr) : pe \in Probabilities, pr \in Probabilities}

TestGenerators ==
    {StaticGenerator(Tile("Room", 15)), StaticGenerator(Tile("Room", 5)),
     StaticGenerator(Tile("Corridor", 10)), MixedGenerator}

\* A mutant of exit_outcomes: the neighbour's tile is not consulted, every
\* direction is drawn.
exit_outcomes_NeighborIgnored(g, m, location, direction, acc) ==
    {IF r.panicked
     THEN [acc EXCEPT !.panicked = TRUE]
     ELSE [panicked |-> FALSE,
           tile_exits |-> IF r.value THEN Append(acc.tile_exits, direction)
                          ELSE acc.tile_exits,
           rng |-> [acc.rng EXCEPT !.draws = @ + 1]] :
        r \in random_bool(acc.rng, g.tile_exit_probability)}

\* A mutant of exit_outcomes: the neighbour is asked for the same direction
\* instead of the opposite one.
exit_outcomes_SameDirection(g, m, location, direction, acc) ==
    LET neighbor == Add(location, direction_vector(direction))
    IN IF neighbor \in DOMAIN m
       THEN IF Contains(directions(m[neighbor].map_tile), direction)
            THEN {[acc EXCEPT !.tile_exits = Append(@, direction)]}
            ELSE {acc}
       ELSE {IF r.panicked
             THEN [acc EXCEPT !.panicked = TRUE]
             ELSE [panicked |-> FALSE,
                   tile_exits |-> IF r.value THEN Append(acc.tile_exits, direction)
                                  ELSE acc.tile_exits,
                   rng |-> [acc.rng EXCEPT !.draws = @ + 1]] :
                r \in random_bool(acc.rng, g.tile_exit_probability)}

\* A mutant of exit_outcomes: after a neighbour's exit is matched the loop
\* falls through to the random draw for the same direction.
exit_outcomes_FallsThrough(g, m, location, direction, acc) ==
    LET neighbor == Add(location, direction_vector(direction))
        matched == IF neighbor \in DOMAIN m
                      /\ Contains(directions(m[neighbor].map_tile), opposite(direction))
                   THEN [acc EXCEPT !.tile_exits = Append(@, direction)]
                   ELSE acc
    IN {IF r.panicked
        THEN [matched EXCEPT !.panicked = TRUE]
        ELSE [panicked |-> FALSE,
              tile_exits |-> IF r.value THEN Append(matched.tile_exits, direction)
                             ELSE matched.tile_exits,
              rng |-> [matched.rng EXCEPT !.draws = @ + 1]] :
           r \in random_bool(matched.rng, g.tile_exit_probability)}

\* A mutant of exit_outcomes: a neighbour with a negative coordinate is
\* taken for a wall of the map.
exit_outcomes_EdgeClosed(g, m, location, direction, acc) ==
    LET neighbor == Add(location, direction_vector(direction))
    IN IF neighbor[1] < 0 \/ neighbor[2] < 0 THEN {acc}
       ELSE IF neighbor \in DOMAIN m
       THEN IF Contains(directions(m[neighbor].map_tile), opposite(direction))
            THEN {[acc EXCEPT !.tile_exits = Append(@, direction)]}
            ELSE {acc}
       ELSE {IF r.panicked
             THEN [acc EXCEPT !.panicked = TRUE]
             ELSE [panicked |-> FALSE,
                   tile_exits |-> IF r.value THEN Append(acc.tile_exits, direction)
                                  ELSE acc.tile_exits,
                   rng |-> [acc.rng EXCEPT !.draws = @ + 1]] :
                r \in random_bool(acc.rng, g.tile_exit_probability)}

\* A mutant of exit_outcomes: the draw is made before the neighbour is looked
\* up, and thrown away when the neighbour has a tile.
exit_outcomes_DrawsFirst(g, m, location, direction, acc) ==
    LET neighbor == Add(location, direction_vector(direction))
    IN {IF r.panicked
        THEN [acc EXCEPT !.panicked = TRUE]
        ELSE [panicked |-> FALSE,
              tile_exits |->
                  IF IF neighbor \in DOMAIN m
                     THEN Contains(directions(m[neighbor].map_tile), opposite(direction))
                     ELSE r.value
                  THEN Append(acc.tile_exits, direction)
                  ELSE acc.tile_exits,
              rng |-> [acc.rng EXCEPT !.draws = @ + 1]] :
           r \in random_bool(acc.rng, g.tile_exit_probability)}

\* One iteration of tile_at's loop over the directions: from the exits
\* collected and the random state so far (acc), the possible ones after
\* `direction` is considered.
exit_outcomes(g, m, location, direction, acc) ==
    LET neighbor == Add(location, direction_vector(direction))
    IN IF neighbor \in DOMAIN m
       THEN IF Contains(directions(m[neighbor].map_tile), opposite(direction))
            THEN {[acc EXCEPT !.tile_exits = Append(@, direction)]}
            ELSE {acc}
       ELSE {IF r.panicked
             THEN [acc EXCEPT !.panicked = TRUE]
             ELSE [panicked |-> FALSE,
                   tile_exits |-> IF r.value THEN Append(acc.tile_exits, direction)
                                  ELSE acc.tile_exits,
                   rng |-> [acc.rng EXCEPT !.draws = @ + 1]] :
                r \in random_bool(acc.rng, g.tile_exit_probability)}

\* tile_at's loop from the i-th direction on; a panic ends the call.
RECURSIVE collect_exits(_, _, _, _, _)
collect_exits(g, m, location, i, acc) ==
    IF i > Len(all) \/ acc.panicked THEN {acc}
    ELSE UNION {collect_exits(g, m, location, i + 1, a) :
                    a \in exit_outcomes(g, m, location, all[i], acc)}

\* A call that ended in a panic, in random_bool or in the unwrap of
\* from_directions' result.
Panic(acc, cause) ==
    [panicked |-> TRUE, cause |-> cause, tile |-> NoTile,
     tile_exits |-> acc.tile_exits, rng |-> acc.rng]

\* TileGeneratorDefault::tile_at: the possible results [panicked, cause, tile,
\* tile_exits, rng]: tile_exits the list handed to from_directions and rng the
\* generator's random state after the call.
tile_at(g, m, location) ==
    UNION {
        IF acc.panicked THEN {Panic(acc, "random_bool")}
        ELSE IF from_directions(acc.tile_exits) = None THEN {Panic(acc, "unwrap")}
        ELSE {IF r.panicked THEN Panic(acc, "random_bool")
              ELSE [panicked |-> FALSE, cause |-> "none",
                    tile |-> Tile(IF r.value THEN "Room" ELSE "Corridor",
                                  from_directions(acc.tile_exits)[1]),
                    tile_exits |-> acc.tile_exits,
                    rng |-> [acc.rng EXCEPT !.draws = @ + 1]] :
                 r \in random_bool(acc.rng, g.room_probability)} :
        acc \in collect_exits(g, m, location, 1,
                              [panicked |-> FALSE, tile_exits |-> <<>>, rng |-> g.rng])}

\* TileGenerator::tile_at, dispatched on the generator the Map holds.
generator_tile_at(g, m, location) ==
    CASE g.kind = "Default" -> tile_at(g, m, location)
      [] g.kind = "Static" ->
            {[panicked |-> FALSE, cause |-> "none", tile |-> g.tile,
              tile_exits |-> <<>>, rng |-> g.rng]}
      [] g.kind = "Mixed" ->
            {[panicked |-> FALSE, cause |-> "none",
              tile |-> IF location[1] % 2 = 0 THEN Tile("Room", 15)
                       ELSE Tile("Corridor", 15),
              tile_exits |-> <<>>, rng |-> g.rng]}

(***************************************************************************)
(* Map                                                                     *)
(***************************************************************************)
\* HashMap::new() and HashMap::insert.
EmptyMap == [c \in {} |-> NoTile]
Insert(m, k, v) == [c \in DOMAIN m \cup {k} |-> IF c = k THEN v ELSE m[c]]
Remove(m, k) == [c \in DOMAIN m \ {k} |-> m[c]]

\* A mutant of ScanOrder: y in the outer loop, x in the inner one.
ScanOrder_YOuter(x, y) ==
    [k \in 1..(x * y) |-> <<(k - 1) % x, (k - 1) \div x>>]

\* A mutant of ScanOrder: the ranges are 1..=x and 1..=y.
ScanOrder_OneBased(x, y) ==
    [k \in 1..(x * y) |-> <<((k - 1) \div y) + 1, ((k - 1) % y) + 1>>]

\* iproduct!(0..x, 0..y): x in the outer loop, y in the inner one.
ScanOrder(x, y) ==
    [k \in 1..(x * y) |-> <<(k - 1) \div y, (k - 1) % y>>]

\* The in-bounds coordinates of a Map of the given size.
Grid(n) == (0..(n - 1)) \X (0..(n - 1))

\* A mutant of can_move: the destination's exit is not checked.
can_move_OneSided(m, n, from, to) ==
    IF from = to THEN FALSE
    ELSE IF from[1] < 0 \/ from[2] < 0 \/ from[1] >= n \/ from[2] >= n
            \/ to[1] < 0 \/ to[2] < 0 \/ to[1] >= n \/ to[2] >= n
    THEN FALSE
    ELSE LET delta == Sub(to, from)
         IN IF ~\E d \in Direction : direction_vector(d) = delta THEN FALSE
            ELSE LET direction == CHOOSE d \in Direction : direction_vector(d) = delta
                 IN IF from \notin DOMAIN m THEN FALSE
                    ELSE IF to \notin DOMAIN m THEN FALSE
                    ELSE Contains(directions(m[from].map_tile), direction)

\* A mutant of can_move: the upper bound of the range is inclusive.
can_move_BoundInclusive(m, n, from, to) ==
    IF from = to THEN FALSE
    ELSE IF from[1] < 0 \/ from[2] < 0 \/ from[1] > n \/ from[2] > n
            \/ to[1] < 0 \/ to[2] < 0 \/ to[1] > n \/ to[2] > n
    THEN FALSE
    ELSE LET delta == Sub(to, from)
         IN IF ~\E d \in Direction : direction_vector(d) = delta THEN FALSE
            ELSE LET direction == CHOOSE d \in Direction : direction_vector(d) = delta
                 IN IF from \notin DOMAIN m THEN FALSE
                    ELSE IF to \notin DOMAIN m THEN FALSE
                    ELSE Contains(directions(m[from].map_tile), direction)
                         /\ Contains(directions(m[to].map_tile), opposite(direction))

\* A mutant of can_move: a missing entry reads as a tile with all four exits.
can_move_MissingIsOpen(m, n, from, to) ==
    IF from = to THEN FALSE
    ELSE IF from[1] < 0 \/ from[2] < 0 \/ from[1] >= n \/ from[2] >= n
            \/ to[1] < 0 \/ to[2] < 0 \/ to[1] >= n \/ to[2] >= n
    THEN FALSE
    ELSE LET delta == Sub(to, from)
         IN IF ~\E d \in Direction : direction_vector(d) = delta THEN FALSE
            ELSE LET direction == CHOOSE d \in Direction : direction_vector(d) = delta
                     from_tile == IF from \in DOMAIN m THEN m[from] ELSE Tile("Room", 15)
                     to_tile == IF to \in DOMAIN m THEN m[to] ELSE Tile("Room", 15)
                 IN Contains(directions(from_tile.map_tile), direction)
                    /\ Contains(directions(to_tile.map_tile), opposite(direction))

\* A mutant of can_move: the destination is asked for the direction of
\* travel instead of the opposite one.
can_move_SameDirection(m, n, from, to) ==
    IF from = to THEN FALSE
    ELSE IF from[1] < 0 \/ from[2] < 0 \/ from[1] >= n \/ from[2] >= n
            \/ to[1] < 0 \/ to[2] < 0 \/ to[1] >= n \/ to[2] >= n
    THEN FALSE
    ELSE LET delta == Sub(to, from)
         IN IF ~\E d \in Direction : direction_vector(d) = delta THEN FALSE
            ELSE LET direction == CHOOSE d \in Direction : direction_vector(d) = delta
                 IN IF from \notin DOMAIN m THEN FALSE
                    ELSE IF to \notin DOMAIN m THEN FALSE
                    ELSE Contains(directions(m[from].map_tile), direction)
                         /\ Contains(directions(m[to].map_tile), direction)

\* A mutant of can_move: the match on delta looks at delta.x alone when it
\* is not zero, so a diagonal step counts as a step East or West.
can_move_DiagonalAsHorizontal(m, n, from, to) ==
    IF from = to THEN FALSE
    ELSE IF from[1] < 0 \/ from[2] < 0 \/ from[1] >= n \/ from[2] >= n
            \/ to[1] < 0 \/ to[2] < 0 \/ to[1] >= n \/ to[2] >= n
    THEN FALSE
    ELSE LET delta == Sub(to, from)
             flat == IF delta[1] # 0 THEN <<delta[1], 0>> ELSE delta
         IN IF ~\E d \in Direction : direction_vector(d) = flat THEN FALSE
            ELSE LET direction == CHOOSE d \in Direction : direction_vector(d) = flat
                 IN IF from \notin DOMAIN m THEN FALSE
                    ELSE IF to \notin DOMAIN m THEN FALSE
                    ELSE Contains(directions(m[from].map_tile), direction)
                         /\ Contains(directions(m[to].map_tile), opposite(direction))

\* A mutant of can_move: the exit of the tile moved from is not checked.
can_move_SourceUnchecked(m, n, from, to) ==
    IF from = to THEN FALSE
    ELSE IF from[1] < 0 \/ from[2] < 0 \/ from[1] >= n \/ from[2] >= n
            \/ to[1] < 0 \/ to[2] < 0 \/ to[1] >= n \/ to[2] >= n
    THEN FALSE
    ELSE LET delta == Sub(to, from)
         IN IF ~\E d \in Direction : direction_vector(d) = delta THEN FALSE
            ELSE LET direction == CHOOSE d \in Direction : direction_vector(d) = delta
                 IN IF from \notin DOMAIN m THEN FALSE
                    ELSE IF to \notin DOMAIN m THEN FALSE
                    ELSE Contains(directions(m[to].map_tile), opposite(direction))

\* A mutant of can_move: the exits of the two tiles are not looked at.
can_move_ExitsIgnored(m, n, from, to) ==
    IF from = to THEN FALSE
    ELSE IF from[1] < 0 \/ from[2] < 0 \/ from[1] >= n \/ from[2] >= n
            \/ to[1] < 0 \/ to[2] < 0 \/ to[1] >= n \/ to[2] >= n
    THEN FALSE
    ELSE LET delta == Sub(to, from)
         IN IF ~\E d \in Direction : direction_vector(d) = delta THEN FALSE
            ELSE from \in DOMAIN m /\ to \in DOMAIN m

\* Map::can_move on a Map with tiles m and x = y = n.
can_move(m, n, from, to) ==
    IF from = to THEN FALSE
    ELSE IF from[1] < 0 \/ from[2] < 0 \/ from[1] >= n \/ from[2] >= n
            \/ to[1] < 0 \/ to[2] < 0 \/ to[1] >= n \/ to[2] >= n
    THEN FALSE
    ELSE LET delta == Sub(to, from)
         IN IF ~\E d \in Direction : direction_vector(d) = delta THEN FALSE
            ELSE LET direction == CHOOSE d \in Direction : direction_vector(d) = delta
                 IN IF from \notin DOMAIN m THEN FALSE
                    ELSE IF to \notin DOMAIN m THEN FALSE
                    ELSE Contains(directions(m[from].map_tile), direction)
                         /\ Contains(directions(m[to].map_tile), opposite(direction))

\* The initial that Display for MapTile writes for a direction.
Initial(d) ==
    CASE d = "North" -> "N"
      [] d = "East" -> "E"
      [] d = "South" -> "S"
      [] d = "West" -> "W"

\* .collect::<String>() of the initials.
RECURSIVE Collect(_)
Collect(dirs) == IF dirs = <<>> THEN "" ELSE Initial(Head(dirs)) \o Collect(Tail(dirs))

\* A mutant of MapTileDisplay: the empty encoding is written as it is.
MapTileDisplay_NoSentinel(bits) == Collect(directions(bits))

\* impl Display for MapTile: the initials of directions(), or "ZERO".
MapTileDisplay(bits) ==
    LET encoding == Collect(directions(bits))
    IN IF encoding = "" THEN "ZERO" ELSE encoding

\* impl Display for TileSet.
TileSetDisplay(tile_set) == IF tile_set = "Room" THEN "room" ELSE "corridor"

\* format!("{}-{}-{}.png", tile.tile_set, tile.map_tile as u8, tile.map_tile).
texture_file_name(tile) ==
    TileSetDisplay(tile.tile_set) \o "-" \o ToString(tile.map_tile) \o "-"
    \o MapTileDisplay(tile.map_tile) \o ".png"

\* The items a consumer gets from the first k positions of the scan, and
\* whether the unwrap of tiles.get(&position) panicked on the way.
RECURSIVE yield(_, _, _, _)
yield(m, scan, k, acc) ==
    IF k > Len(scan) THEN [panicked |-> FALSE, items |-> acc]
    ELSE IF scan[k] \notin DOMAIN m THEN [panicked |-> TRUE, items |-> acc]
    ELSE yield(m, scan, k + 1, Append(acc, <<scan[k], texture_file_name(m[scan[k]])>>))

\* A mutant of iterate_tiles: the position is built as IVec2::new(y, x).
iterate_tiles_Transposed(m, x, y) ==
    yield(m, [k \in 1..(x * y) |-> <<ScanOrder(x, y)[k][2], ScanOrder(x, y)[k][1]>>],
          1, <<>>)

\* A mutant of iterate_tiles: the inner range stops one short.
iterate_tiles_ShortColumn(m, x, y) ==
    yield(m, IF y = 0 THEN <<>> ELSE ScanOrder(x, y - 1), 1, <<>>)

\* Map::iterate_tiles, consumed to its end, on a Map with tiles m and sides
\* x and y.
iterate_tiles(m, x, y) == yield(m, ScanOrder(x, y), 1, <<>>)

(***************************************************************************)
(* The state machine                                                       *)
(***************************************************************************)
NoTwin == [generator |-> MixedGenerator, tiles |-> EmptyMap, cursor |-> 0, pc |-> "none"]

\* Map::new up to the loop: the struct holds the size, the generator and an
\* empty HashMap.
MapNew(g, n) ==
    /\ generator = g
    /\ size = n
    /\ tiles = EmptyMap
    /\ cursor = 0
    /\ pc = "new"
    /\ given = <<>>

OneMap ==
    /\ twin = NoTwin
    /\ calls = <<>>

NoCaller ==
    /\ last_query = <<>>
    /\ edits = 0

NoSlice ==
    /\ input = <<>>
    /\ output = <<>>

NoDirection ==
    /\ path = <<>>
    /\ trail = <<>>

NoResult ==
    /\ listing = <<>>
    /\ returned = <<>>

\* Nothing but the Map and its generator is in use.
\* No thread is inside tile_at; the Mutex is free and not poisoned.
Unlocked == [holder |-> 0, poisoned |-> FALSE]

NoThreads ==
    /\ threads = <<>>
    /\ mutex = Unlocked
    /\ consumed = <<>>

MapOnly ==
    /\ exits = <<>>
    /\ back = <<>>
    /\ NoDirection
    /\ NoResult
    /\ NoThreads

Init ==
    /\ \E g \in DefaultGenerators \cup TestGenerators, n \in 0..MaxSize : MapNew(g, n)
    /\ OneMap
    /\ NoCaller
    /\ NoSlice
    /\ MapOnly

\* One iteration of Map::new's loop: the generator is called with the tiles
\* stored so far and the result is inserted; a panic in tile_at ends the
\* construction.
NewStep ==
    /\ pc = "new"
    /\ cursor < size * size
    /\ LET position == ScanOrder(size, size)[cursor + 1]
       IN \E o \in generator_tile_at(generator, tiles, position) :
            /\ given' = Append(given, [location |-> position, keys |-> DOMAIN tiles])
            /\ generator' = [generator EXCEPT !.rng = o.rng]
            /\ IF o.panicked
               THEN /\ pc' = "panicked"
                    /\ UNCHANGED <<tiles, cursor>>
               ELSE /\ tiles' = Insert(tiles, position, o.tile)
                    /\ cursor' = cursor + 1
                    /\ pc' = pc
    /\ UNCHANGED <<size, twinVars, callerVars, sliceVars, tileVars, directionVars, resultVars, threadVars>>

\* Map::new returns the map once the loop is over.
NewReturn ==
    /\ pc = "new"
    /\ cursor = size * size
    /\ pc' = "ready"
    /\ UNCHANGED <<generator, size, tiles, cursor, given, twinVars, callerVars, sliceVars, tileVars, directionVars, resultVars, threadVars>>

Next ==
    \/ NewStep
    \/ NewReturn

Spec == Init /\ [][Next]_vars

(***************************************************************************)
(* Map::new and then iterate_tiles, collected, any number of times.        *)
(***************************************************************************)
InitIterate ==
    /\ \E g \in SeededGenerators \cup TestGenerators, n \in 0..MaxSize : MapNew(g, n)
    /\ OneMap
    /\ NoCaller
    /\ NoSlice
    /\ MapOnly

\* map.iterate_tiles().collect(): the items are recorded together with the
\* tiles the Map held when the call started.
IterateTiles ==
    /\ pc = "ready"
    /\ Len(listing) < MaxIterations
    /\ LET o == iterate_tiles(tiles, size, size)
       IN /\ listing' = Append(listing, [items |-> o.items, tiles |-> tiles])
          /\ pc' = IF o.panicked THEN "panicked" ELSE pc
    /\ UNCHANGED <<generator, size, tiles, cursor, given, twinVars, callerVars,
                   sliceVars, tileVars, directionVars, returned, threadVars>>

NextIterate ==
    \/ NewStep
    \/ NewReturn
    \/ IterateTiles

SpecIterate == InitIterate /\ [][NextIterate]_vars

(***************************************************************************)
(* A constructed Map in the hands of a caller: the caller may write to the *)
(* public `tiles` field (as the tests do) and ask can_move.                *)
(***************************************************************************)
\* The coordinates a caller asks about: the grid and one cell around it.
QueryCoords(n) == ((-1)..n) \X ((-1)..n)

\* map.tiles.insert(c, t) by a caller.
InsertTile ==
    /\ pc = "ready"
    /\ edits < MaxEdits
    /\ \E c \in Grid(size), t \in Tiles : tiles' = Insert(tiles, c, t)
    /\ edits' = edits + 1
    /\ UNCHANGED <<generator, size, cursor, pc, given, last_query, twinVars, sliceVars, tileVars, directionVars, resultVars, threadVars>>

\* map.tiles.insert(c, t) by a caller, for a coordinate outside the grid: the
\* HashMap takes any IVec2. The tile written there has all four exits.
InsertOutside ==
    /\ pc = "ready"
    /\ edits < MaxEdits
    /\ \E c \in QueryCoords(size) \ Grid(size) :
         tiles' = Insert(tiles, c, Tile("Room", 15))
    /\ edits' = edits + 1
    /\ UNCHANGED <<generator, size, cursor, pc, given, last_query, twinVars, sliceVars, tileVars, directionVars, resultVars, threadVars>>

\* map.tiles.remove(c) by a caller.
RemoveTile ==
    /\ pc = "ready"
    /\ edits < MaxEdits
    /\ \E c \in DOMAIN tiles : tiles' = Remove(tiles, c)
    /\ edits' = edits + 1
    /\ UNCHANGED <<generator, size, cursor, pc, given, last_query, twinVars, sliceVars, tileVars, directionVars, resultVars, threadVars>>

\* A caller calls map.can_move(from, to); the map is borrowed until the call
\* returns.
CanMoveCall ==
    /\ pc = "ready"
    /\ \E from \in QueryCoords(size), to \in QueryCoords(size) :
         last_query' = <<[from |-> from, to |-> to,
                          result |-> can_move(tiles, size, from, to)]>>
    /\ pc' = "can_move"
    /\ UNCHANGED <<generator, size, tiles, cursor, given, edits, twinVars, sliceVars, tileVars, directionVars, resultVars, threadVars>>

\* The caller takes the boolean and goes on.
CanMoveReturn ==
    /\ pc = "can_move"
    /\ pc' = "ready"
    /\ last_query' = <<>>
    /\ UNCHANGED <<generator, size, tiles, cursor, given, edits, twinVars, sliceVars, tileVars, directionVars, resultVars, threadVars>>

InitQuery ==
    /\ \E n \in 1..MaxSize : MapNew(StaticGenerator(Tile("Room", 15)), n)
    /\ OneMap
    /\ NoCaller
    /\ NoSlice
    /\ MapOnly

NextQuery ==
    \/ NewStep
    \/ NewReturn
    \/ InsertTile
    \/ InsertOutside
    \/ RemoveTile
    \/ CanMoveCall
    \/ CanMoveReturn

SpecQuery == InitQuery /\ [][NextQuery]_vars

(***************************************************************************)
(* Two seeded generators side by side: each builds its own Map of the same *)
(* size, or both are called directly with the same arguments.              *)
(***************************************************************************)
SameConfiguration(g1, g2) ==
    /\ g1.tile_exit_probability = g2.tile_exit_probability
    /\ g1.room_probability = g2.room_probability

\* The arguments of the direct calls: the locations of the test
\* tile_generator_with_seed_is_reproducible, on an empty map and on a map
\* holding one tile (tile_generator_respects_neighbor_exits).
DirectLocations == {<<0, 0>>, <<1, 0>>, <<1, 2>>, <<-3, 5>>}
DirectMaps == {EmptyMap, Insert(EmptyMap, <<0, 0>>, Tile("Room", 2))}

InitTwin ==
    /\ \E g1 \in SeededGenerators, g2 \in SeededGenerators, n \in 0..MaxSize,
          mode \in {"new", "direct"} :
         /\ g1.rng.seed = g2.rng.seed \/ SameConfiguration(g1, g2)
         /\ generator = g1
         /\ size = (IF mode = "new" THEN n ELSE 0)
         /\ tiles = EmptyMap
         /\ cursor = 0
         /\ pc = mode
         /\ given = <<>>
         /\ twin = [generator |-> g2, tiles |-> EmptyMap, cursor |-> 0, pc |-> mode]
    /\ calls = <<>>
    /\ NoCaller
    /\ NoSlice
    /\ MapOnly

\* NewStep of the second Map.
TwinNewStep ==
    /\ twin.pc = "new"
    /\ twin.cursor < size * size
    /\ LET position == ScanOrder(size, size)[twin.cursor + 1]
       IN \E o \in generator_tile_at(twin.generator, twin.tiles, position) :
            twin' = IF o.panicked
                    THEN [twin EXCEPT !.generator.rng = o.rng, !.pc = "panicked"]
                    ELSE [twin EXCEPT !.generator.rng = o.rng,
                                      !.tiles = Insert(twin.tiles, position, o.tile),
                                      !.cursor = @ + 1]
    /\ UNCHANGED <<generator, size, tiles, cursor, pc, given, calls, callerVars, sliceVars, tileVars, directionVars, resultVars, threadVars>>

\* NewReturn of the second Map.
TwinNewReturn ==
    /\ twin.pc = "new"
    /\ twin.cursor = size * size
    /\ twin' = [twin EXCEPT !.pc = "ready"]
    /\ UNCHANGED <<generator, size, tiles, cursor, pc, given, calls, callerVars, sliceVars, tileVars, directionVars, resultVars, threadVars>>

\* The body of the reproducibility test's loop: tile_at on the first
\* generator, then tile_at on the second one with the same arguments.
TileAtPair ==
    /\ pc = "direct"
    /\ twin.pc = "direct"
    /\ Len(calls) < MaxCalls
    /\ \E m \in DirectMaps, location \in DirectLocations :
       \E oa \in generator_tile_at(generator, m, location) :
         /\ generator' = [generator EXCEPT !.rng = oa.rng]
         /\ IF oa.panicked
            THEN /\ pc' = "panicked"
                 /\ UNCHANGED <<twin, calls>>
            ELSE \E ob \in generator_tile_at(twin.generator, m, location) :
                    /\ twin' = [twin EXCEPT !.generator.rng = ob.rng,
                                            !.pc = IF ob.panicked THEN "panicked" ELSE @]
                    /\ pc' = pc
                    /\ calls' = IF ob.panicked THEN calls
                                ELSE Append(calls, [tile_a |-> oa.tile, tile_b |-> ob.tile])
    /\ UNCHANGED <<size, tiles, cursor, given, callerVars, sliceVars, tileVars, directionVars, resultVars, threadVars>>

NextTwin ==
    \/ NewStep
    \/ NewReturn
    \/ TwinNewStep
    \/ TwinNewReturn
    \/ TileAtPair

SpecTwin == InitTwin /\ [][NextTwin]_vars

(***************************************************************************)
(* tile_at called directly on one generator, with a map that holds any of  *)
(* the four neighbours of the origin.                                      *)
(***************************************************************************)
\* What a neighbour's cell holds: nothing, a tile whose only exit faces the
\* origin, or a tile with every exit but that one.
Neighbours == [Direction -> {"absent", "open", "closed"}]

NeighbourTile(d, c) ==
    IF c = "open" THEN Tile("Room", AsU8(opposite(d)))
    ELSE Tile("Corridor", 15 - AsU8(opposite(d)))

NeighbourMap(c) ==
    [position \in {direction_vector(d) : d \in {e \in Direction : c[e] # "absent"}} |->
        LET d == CHOOSE e \in Direction : direction_vector(e) = position
        IN NeighbourTile(d, c[d])]

CallLocations == {<<0, 0>>, <<1, 0>>}

InitTileAt ==
    /\ generator \in DefaultGenerators
    /\ size = 0
    /\ tiles \in {NeighbourMap(c) : c \in Neighbours} \cup DirectMaps
    /\ cursor = 0
    /\ pc = "direct"
    /\ given = <<>>
    /\ OneMap
    /\ NoCaller
    /\ NoSlice
    /\ MapOnly

\* generator.tile_at(&tiles, location), called by the owner of both; the call
\* is recorded with the tiles and the random state it started from.
TileAtCall ==
    /\ pc = "direct"
    /\ Len(returned) < MaxDirect
    /\ \E location \in CallLocations :
       \E o \in generator_tile_at(generator, tiles, location) :
         /\ generator' = [generator EXCEPT !.rng = o.rng]
         /\ pc' = IF o.panicked THEN "panicked" ELSE pc
         /\ returned' = Append(returned,
                               [location |-> location, tiles |-> tiles,
                                rng |-> generator.rng, panicked |-> o.panicked,
                                cause |-> o.cause, tile |-> o.tile,
                                tile_exits |-> o.tile_exits])
    /\ UNCHANGED <<size, tiles, cursor, given, twinVars, callerVars, sliceVars,
                   tileVars, directionVars, listing, threadVars>>

NextTileAt ==
    \/ TileAtCall

SpecTileAt == InitTileAt /\ [][NextTileAt]_vars

(***************************************************************************)
(* MapTile::from_directions applied to a slice of directions.              *)
(***************************************************************************)
Slices == UNION {[1..k -> Direction] : k \in 0..MaxLen}

InitTile ==
    /\ generator = MixedGenerator
    /\ size = 0
    /\ tiles = EmptyMap
    /\ cursor = 0
    /\ pc = "slice"
    /\ given = <<>>
    /\ OneMap
    /\ NoCaller
    /\ input \in Slices
    /\ output = <<>>
    /\ MapOnly

FromDirections ==
    /\ pc = "slice"
    /\ output' = <<from_directions(input)>>
    /\ pc' = "returned"
    /\ UNCHANGED <<generator, size, tiles, cursor, given, input, twinVars, callerVars,
                   tileVars, directionVars, resultVars, threadVars>>

\* tile.directions() on the tile that from_directions returned.
Directions ==
    /\ pc = "returned"
    /\ output[1] # None
    /\ exits' = <<directions(output[1][1])>>
    /\ pc' = "directions"
    /\ UNCHANGED <<generator, size, tiles, cursor, given, twinVars, callerVars,
                   sliceVars, back, directionVars, resultVars, threadVars>>

\* MapTile::from_directions(&tile.directions()).
FromDirectionsBack ==
    /\ pc = "directions"
    /\ back' = <<from_directions(exits[1])>>
    /\ pc' = "rebuilt"
    /\ UNCHANGED <<generator, size, tiles, cursor, given, twinVars, callerVars,
                   sliceVars, exits, directionVars, resultVars, threadVars>>

NextTile ==
    \/ FromDirections
    \/ Directions
    \/ FromDirectionsBack

SpecTile == InitTile /\ [][NextTile]_vars

(***************************************************************************)
(* The methods of Direction applied one after the other, each to the       *)
(* direction the one before it returned.                                   *)
(***************************************************************************)
InitDirection ==
    /\ generator = MixedGenerator
    /\ size = 0
    /\ tiles = EmptyMap
    /\ cursor = 0
    /\ pc = "direction"
    /\ given = <<>>
    /\ OneMap
    /\ NoCaller
    /\ NoSlice
    /\ exits = <<>>
    /\ back = <<>>
    /\ NoResult
    /\ NoThreads
    /\ path = <<>>
    /\ \E d \in Direction : trail = <<d>>

\* The direction the next method is called on.
Heading == trail[Len(trail)]

Opposite ==
    /\ pc = "direction"
    /\ Len(path) < MaxPath
    /\ path' = Append(path, "opposite")
    /\ trail' = Append(trail, opposite(Heading))
    /\ UNCHANGED <<generator, size, tiles, cursor, pc, given, twinVars, callerVars,
                   sliceVars, tileVars, resultVars, threadVars>>

RotateClockwise ==
    /\ pc = "direction"
    /\ Len(path) < MaxPath
    /\ path' = Append(path, "rotate_clockwise")
    /\ trail' = Append(trail, rotate_clockwise(Heading))
    /\ UNCHANGED <<generator, size, tiles, cursor, pc, given, twinVars, callerVars,
                   sliceVars, tileVars, resultVars, threadVars>>

RotateCounterClockwise ==
    /\ pc = "direction"
    /\ Len(path) < MaxPath
    /\ path' = Append(path, "rotate_counter_clockwise")
    /\ trail' = Append(trail, rotate_counter_clockwise(Heading))
    /\ UNCHANGED <<generator, size, tiles, cursor, pc, given, twinVars, callerVars,
                   sliceVars, tileVars, resultVars, threadVars>>

NextDirection ==
    \/ Opposite
    \/ RotateClockwise
    \/ RotateCounterClockwise

SpecDirection == InitDirection /\ [][NextDirection]_vars

(***************************************************************************)
(* Two threads inside tile_at on one generator whose seeded StdRng sits     *)
(* behind a Mutex. tile_at takes &self and &HashMap, so the threads share   *)
(* the generator and the map; a thread runs its loop on its own stack and   *)
(* takes the lock for each random_bool.                                     *)
(***************************************************************************)
ThreadIds == {1, 2}

\* A thread at the entry of tile_at(&tiles, location): i is the direction the
\* loop is at, 5 standing for the style draw after the loop.
StartThread(location) ==
    [pc |-> "loop", location |-> location, i |-> 1, tile_exits |-> <<>>,
     index |-> 0, drawn |-> 0, tile |-> NoTile]

\* A mutant of CanLock: lock() does not wait for the holder.
CanLock_NoExclusion(m) == TRUE

\* Mutex::lock returns once no thread holds the guard.
CanLock(m) == m.holder = 0

\* A mutant of GuardDropped: the guard outlives the statement.
GuardDropped_KeptForCall(m) == m

\* The MutexGuard is a temporary of the statement
\* `rng.lock().unwrap().random_bool(probability)` and is dropped at its end.
GuardDropped(m) == [m EXCEPT !.holder = 0]

\* A panic while the guard is alive drops it and poisons the Mutex.
Poisoned == [holder |-> 0, poisoned |-> TRUE]

InitThreads ==
    /\ generator \in SeededGenerators
    /\ size = 0
    /\ tiles \in DirectMaps
    /\ cursor = 0
    /\ pc = "shared"
    /\ given = <<>>
    /\ OneMap
    /\ NoCaller
    /\ NoSlice
    /\ exits = <<>>
    /\ back = <<>>
    /\ NoDirection
    /\ NoResult
    /\ threads \in [ThreadIds -> {StartThread(l) : l \in CallLocations}]
    /\ mutex = Unlocked
    /\ consumed = <<>>

\* The loop is at a direction whose neighbour has no tile, or past its end:
\* the next thing the thread does is a random_bool.
NeedsDraw(th) ==
    IF th.i = 5 THEN TRUE
    ELSE Add(th.location, direction_vector(all[th.i])) \notin DOMAIN tiles

\* The random state as the thread saw it when it read it.
SeenRng(th) == [generator.rng EXCEPT !.draws = th.index]

\* An iteration of the loop for a direction whose neighbour has a tile: no
\* draw, no lock.
NeighbourStep(t) ==
    /\ threads[t].pc = "loop"
    /\ ~NeedsDraw(threads[t])
    /\ \E a \in exit_outcomes(generator, tiles, threads[t].location, all[threads[t].i],
                              [panicked |-> FALSE, tile_exits |-> threads[t].tile_exits,
                               rng |-> generator.rng]) :
         threads' = [threads EXCEPT ![t].tile_exits = a.tile_exits, ![t].i = @ + 1]
    /\ UNCHANGED <<generator, size, tiles, cursor, pc, given, twinVars, callerVars,
                   sliceVars, tileVars, directionVars, resultVars, mutex, consumed>>

\* rng.lock().unwrap(), after the unwrap of from_directions when the loop is
\* over: the thread gets the guard, or panics on a poisoned Mutex.
Lock(t) ==
    /\ threads[t].pc = "loop"
    /\ NeedsDraw(threads[t])
    /\ IF threads[t].i = 5 /\ from_directions(threads[t].tile_exits) = None
       THEN /\ threads' = [threads EXCEPT ![t].pc = "panicked"]
            /\ UNCHANGED mutex
       ELSE /\ CanLock(mutex)
            /\ IF mutex.poisoned
               THEN /\ threads' = [threads EXCEPT ![t].pc = "panicked"]
                    /\ UNCHANGED mutex
               ELSE /\ threads' = [threads EXCEPT ![t].pc = "locked"]
                    /\ mutex' = [mutex EXCEPT !.holder = t]
    /\ UNCHANGED <<generator, size, tiles, cursor, pc, given, twinVars, callerVars,
                   sliceVars, tileVars, directionVars, resultVars, consumed>>

\* StdRng::random_bool, first half: the state of the sequence is read.
Read(t) ==
    /\ threads[t].pc = "locked"
    /\ threads' = [threads EXCEPT ![t].pc = "read", ![t].index = generator.rng.draws]
    /\ UNCHANGED <<generator, size, tiles, cursor, pc, given, twinVars, callerVars,
                   sliceVars, tileVars, directionVars, resultVars, mutex, consumed>>

\* StdRng::random_bool, second half, and the end of the statement: the state
\* is advanced past the output read, the guard is dropped, and the loop (or
\* the call) goes on with the outcome. A probability outside [0, 1] panics
\* with the guard alive.
Draw(t) ==
    /\ threads[t].pc = "read"
    /\ LET th == threads[t]
           acc == [panicked |-> FALSE, tile_exits |-> th.tile_exits, rng |-> SeenRng(th)]
           outcomes ==
               IF th.i <= 4
               THEN {[panicked |-> a.panicked, tile_exits |-> a.tile_exits,
                      rng |-> a.rng, tile |-> NoTile, pc |-> "loop"] :
                        a \in exit_outcomes(generator, tiles, th.location, all[th.i], acc)}
               ELSE {[panicked |-> r.panicked, tile_exits |-> th.tile_exits,
                      rng |-> [SeenRng(th) EXCEPT !.draws = @ + 1],
                      tile |-> Tile(IF r.value THEN "Room" ELSE "Corridor",
                                    from_directions(th.tile_exits)[1]),
                      pc |-> "done"] :
                        r \in random_bool(SeenRng(th), generator.room_probability)}
       IN \E o \in outcomes :
            IF o.panicked
            THEN /\ threads' = [threads EXCEPT ![t].pc = "panicked"]
                 /\ mutex' = Poisoned
                 /\ UNCHANGED <<generator, consumed>>
            ELSE /\ threads' = [threads EXCEPT ![t].pc = o.pc,
                                               ![t].tile_exits = o.tile_exits,
                                               ![t].tile = o.tile,
                                               ![t].i = @ + 1,
                                               ![t].drawn = @ + 1]
                 /\ generator' = [generator EXCEPT !.rng = o.rng]
                 /\ consumed' = Append(consumed, [thread |-> t, index |-> th.index])
                 /\ mutex' = GuardDropped(mutex)
    /\ UNCHANGED <<size, tiles, cursor, pc, given, twinVars, callerVars,
                   sliceVars, tileVars, directionVars, resultVars>>

NextThreads ==
    \E t \in ThreadIds :
        \/ NeighbourStep(t)
        \/ Lock(t)
        \/ Read(t)
        \/ Draw(t)

SpecThreads == InitThreads /\ [][NextThreads]_vars

(***************************************************************************)
(* Properties                                                              *)
(***************************************************************************)
\* The exits of a tile, and the pairs of facing exits, written out.
HasExit(t, d) == HasBit(t.map_tile, d)
Facing(d) ==
    CASE d = "North" -> "South"
      [] d = "South" -> "North"
      [] d = "East" -> "West"
      [] d = "West" -> "East"
Step(d) ==
    CASE d = "North" -> <<0, 1>>
      [] d = "South" -> <<0, -1>>
      [] d = "East" -> <<1, 0>>
      [] d = "West" -> <<-1, 0>>
InBounds(c) == c[1] >= 0 /\ c[1] < size /\ c[2] >= 0 /\ c[2] < size
Cells == {<<x, y>> : x \in 0..(size - 1), y \in 0..(size - 1)}
\* c comes strictly before l in the scan: x ascending, then y ascending.
Before(c, l) == c[1] < l[1] \/ (c[1] = l[1] /\ c[2] < l[2])

\* C1: in a Map built by the default generator, whatever the draws were, two
\* stored tiles one cardinal step apart agree on their shared wall: a has the
\* exit d towards b exactly when b has the exit facing d. It holds of the
\* tiles stored so far at every point of the construction, and so of the
\* finished Map.
C1_AdjacentTilesAgree ==
    generator.kind = "Default" =>
        \A a \in DOMAIN tiles, d \in Direction :
            LET b == <<a[1] + Step(d)[1], a[2] + Step(d)[2]>>
            IN b \in DOMAIN tiles =>
                (HasExit(tiles[a], d) <=> HasExit(tiles[b], Facing(d)))

\* C1, witness: a finished 2 x 2 Map of the default generator with an open
\* shared wall and a closed one.
C1_Witness ==
    /\ pc = "ready"
    /\ generator.kind = "Default"
    /\ size >= 2
    /\ HasExit(tiles[<<0, 0>>], "East") /\ HasExit(tiles[<<1, 0>>], "West")
    /\ ~HasExit(tiles[<<0, 0>>], "North") /\ ~HasExit(tiles[<<0, 1>>], "South")

\* C5: on a Map generated by the default generator, for every two adjacent
\* cells a and b, can_move(a, b) = can_move(b, a), and both are true exactly
\* when a has the exit towards b and b has the exit towards a.
C5_GeneratedMovesBidirectional ==
    (pc = "ready" /\ generator.kind = "Default") =>
        \A a \in Cells, d \in Direction :
            LET b == <<a[1] + Step(d)[1], a[2] + Step(d)[2]>>
            IN b \in Cells =>
                /\ can_move(tiles, size, a, b) = can_move(tiles, size, b, a)
                /\ can_move(tiles, size, a, b)
                     <=> (HasExit(tiles[a], d) /\ HasExit(tiles[b], Facing(d)))

\* C5, witness: a finished 2 x 2 Map of the default generator where one move
\* is legal both ways and another is illegal both ways.
C5_Witness ==
    /\ pc = "ready"
    /\ generator.kind = "Default"
    /\ size >= 2
    /\ can_move(tiles, size, <<0, 0>>, <<0, 1>>)
    /\ can_move(tiles, size, <<0, 1>>, <<0, 0>>)
    /\ ~can_move(tiles, size, <<1, 0>>, <<1, 1>>)
    /\ ~can_move(tiles, size, <<1, 1>>, <<1, 0>>)

\* C7: when Map::new has returned, the tile mapping has an entry for every
\* coordinate of [0, size) x [0, size) and for no other one, size * size
\* entries in all, whatever the generator.
C7_OneEntryPerCell ==
    pc = "ready" =>
        /\ \A c \in DOMAIN tiles : InBounds(c)
        /\ \A x \in 0..(size - 1), y \in 0..(size - 1) : <<x, y>> \in DOMAIN tiles
        /\ Cardinality(DOMAIN tiles) = size * size

\* C7, witness: a finished 2 x 2 Map of one of the tests' generators.
C7_Witness ==
    /\ pc = "ready"
    /\ size >= 2
    /\ generator.kind = "Mixed"
    /\ Cardinality(DOMAIN tiles) >= 4

\* C8: the i-th tile_at call of Map::new is for the i-th coordinate of the
\* scan (x ascending outside, y ascending inside); it is given the tiles of
\* exactly the in-bounds coordinates strictly before that one, so each result
\* was stored before the next call; and nothing else is stored.
C8_ScanOrderAndGivenTiles ==
    /\ \A i \in 1..Len(given) :
         /\ given[i].location = <<(i - 1) \div size, (i - 1) % size>>
         /\ given[i].keys = {c \in Cells : Before(c, given[i].location)}
    /\ DOMAIN tiles = {given[i].location : i \in 1..cursor}
    /\ Len(given) = (IF pc = "panicked" THEN cursor + 1 ELSE cursor)

\* C8, witness: all four calls of a 2 x 2 construction by the default
\* generator are made; the third one, for (1, 0), saw (0, 0) and (0, 1).
C8_Witness ==
    /\ size >= 2
    /\ generator.kind = "Default"
    /\ Len(given) >= 4
    /\ given[3].location = <<1, 0>>
    /\ given[3].keys = {<<0, 0>>, <<0, 1>>}

\* The displacement of a query is one unit step in direction d.
UnitStep(q, d) == q.to = <<q.from[1] + Step(d)[1], q.from[2] + Step(d)[2]>>
\* tiles m with the styles of the tiles at a and b replaced.
Restyled(m, a, sa, b, sb) ==
    [c \in DOMAIN m |->
        IF c = a THEN [tile_set |-> sa, map_tile |-> m[c].map_tile]
        ELSE IF c = b THEN [tile_set |-> sb, map_tile |-> m[c].map_tile]
        ELSE m[c]]

\* C2: whatever the map holds (hand-edited tiles included), for in-bounds
\* from and to one unit step apart in direction d, both holding a tile,
\* can_move(from, to) is true exactly when the from tile has the exit d and the
\* to tile has the exit facing d; and the answer is the same whatever the
\* styles of the two tiles are.
C2_MoveIffBothExits ==
    \A i \in DOMAIN last_query :
        LET q == last_query[i]
        IN \A d \in Direction :
            (/\ InBounds(q.from) /\ InBounds(q.to)
             /\ UnitStep(q, d)
             /\ q.from \in DOMAIN tiles /\ q.to \in DOMAIN tiles) =>
                /\ q.result <=> (HasExit(tiles[q.from], d) /\ HasExit(tiles[q.to], Facing(d)))
                /\ \A sa \in TileSet, sb \in TileSet :
                     can_move(Restyled(tiles, q.from, sa, q.to, sb), size, q.from, q.to)
                        = q.result

\* C2, witness: (0,0) was set to a Room with the East exit alone and (1,0) to
\* a Corridor with the West exit alone, and can_move((0,0), (1,0)) is true.
C2_Witness ==
    /\ last_query # <<>>
    /\ last_query[1].from = <<0, 0>> /\ last_query[1].to = <<1, 0>>
    /\ last_query[1].result
    /\ <<0, 0>> \in DOMAIN tiles /\ <<1, 0>> \in DOMAIN tiles
    /\ tiles[<<0, 0>>] = [tile_set |-> "Room", map_tile |-> 2]
    /\ tiles[<<1, 0>>] = [tile_set |-> "Corridor", map_tile |-> 8]

\* C2, the example of the tests: with (0,0) = E and (1,0) = N the move from
\* (0,0) to (1,0) is refused.
C2_MismatchedExitsRefused ==
    \A i \in DOMAIN last_query :
        (/\ last_query[i].from = <<0, 0>> /\ last_query[i].to = <<1, 0>>
         /\ <<0, 0>> \in DOMAIN tiles /\ <<1, 0>> \in DOMAIN tiles
         /\ tiles[<<0, 0>>].map_tile = 2 /\ tiles[<<1, 0>>].map_tile = 1)
            => ~last_query[i].result

C3_DiagonalWitness ==
    /\ last_query # <<>>
    /\ last_query[1].from = <<0, 0>> /\ last_query[1].to = <<1, 1>>
    /\ ~last_query[1].result
    /\ \A c \in DOMAIN tiles : tiles[c].map_tile = 15

\* C4: every can_move call returns a boolean, and false when the from or the
\* to coordinate has no entry in the tile mapping.
C4_MissingTileRefused ==
    \A i \in DOMAIN last_query :
        LET q == last_query[i]
        IN /\ q.result \in BOOLEAN
           /\ (q.from \notin DOMAIN tiles \/ q.to \notin DOMAIN tiles) => ~q.result

\* C4, witness: the entry of (1,0) was removed from a Map whose tiles have all
\* four exits, and the step from (0,0) to (1,0) is refused.
C4_Witness ==
    /\ last_query # <<>>
    /\ last_query[1].from = <<0, 0>> /\ last_query[1].to = <<1, 0>>
    /\ ~last_query[1].result
    /\ <<0, 0>> \in DOMAIN tiles
    /\ tiles[<<0, 0>>].map_tile = 15
    /\ <<1, 0>> \notin DOMAIN tiles
    /\ InBounds(<<1, 0>>)

\* The two generators were seeded with the same seed and hold the same
\* probabilities.
SeededIdentically ==
    /\ generator.rng.source = "Seeded"
    /\ twin.generator.rng.source = "Seeded"
    /\ generator.rng.seed = twin.generator.rng.seed
    /\ generator.tile_exit_probability = twin.generator.tile_exit_probability
    /\ generator.room_probability = twin.generator.room_probability

\* C6: two Maps of the same size built from two generators seeded
\* identically hold the same tile, exits and style, at every coordinate both
\* have stored, and the same tiles once both are finished; and two identically
\* seeded generators called directly with the same arguments return the same
\* tile, call by call.
C6_SeededDeterminism ==
    SeededIdentically =>
        /\ \A c \in DOMAIN tiles \cap DOMAIN twin.tiles : tiles[c] = twin.tiles[c]
        /\ (pc = "ready" /\ twin.pc = "ready") => tiles = twin.tiles
        /\ \A i \in DOMAIN calls : calls[i].tile_a = calls[i].tile_b

\* C6, witness: two finished 2 x 2 Maps of identically seeded generators,
\* equal, holding a Room and a Corridor and an open exit.
C6_Witness ==
    /\ SeededIdentically
    /\ pc = "ready" /\ twin.pc = "ready"
    /\ size >= 2
    /\ tiles = twin.tiles
    /\ \E a \in DOMAIN tiles, b \in DOMAIN tiles :
         /\ tiles[a].tile_set = "Room"
         /\ tiles[b].tile_set = "Corridor"
         /\ tiles[a].map_tile # 0

\* C6, the direct calls: two calls were made on each of two identically
\* seeded generators and the results agree.
C6_DirectCallsWitness ==
    /\ SeededIdentically
    /\ Len(calls) >= 2
    /\ calls[1] # calls[2]
    /\ \A i \in DOMAIN calls : calls[i].tile_a = calls[i].tile_b

\* C6, the seed matters: two finished Maps of generators that differ in the
\* seed alone differ.
C6_OtherSeedWitness ==
    /\ generator.rng.seed # twin.generator.rng.seed
    /\ generator.tile_exit_probability = twin.generator.tile_exit_probability
    /\ generator.room_probability = twin.generator.room_probability
    /\ pc = "ready" /\ twin.pc = "ready"
    /\ tiles # twin.tiles

\* C9: a probability outside [0, 1] is rejected when the generator is
\* constructed: no generator that tile_at is called on holds one, and tile_at
\* never fails.
C9_RejectedAtConstruction ==
    /\ (given # <<>> /\ generator.kind = "Default") =>
         /\ ValidProbability(generator.tile_exit_probability)
         /\ ValidProbability(generator.room_probability)
    /\ pc # "panicked"

\* C9, what the code does instead: the constructors store any probability,
\* and the construction of a Map panics at the first draw made with a
\* probability outside [0, 1], and for no other reason.
C9_PanicsAtFirstDraw ==
    generator.kind = "Default" =>
        /\ pc = "panicked" =>
             /\ ~(ValidProbability(generator.tile_exit_probability)
                  /\ ValidProbability(generator.room_probability))
             /\ cursor = 0
        /\ (pc = "ready" /\ size > 0) =>
             /\ ValidProbability(generator.tile_exit_probability)
             /\ ValidProbability(generator.room_probability)

\* A slice holds some direction twice.
HasRepeat(s) == \E i \in DOMAIN s, j \in DOMAIN s : i # j /\ s[i] = s[j]

C10_LongSliceWitness ==
    /\ Len(input) = 5
    /\ output = << <<>> >>

C10_AcceptedWitness ==
    /\ input = <<"West", "South", "East", "North">>
    /\ output = << <<15>> >>

\* The mask of a set of directions: bit 1 for North, 2 for East, 4 for South,
\* 8 for West.
ExitBits(S) ==
    (IF "North" \in S THEN 1 ELSE 0) + (IF "East" \in S THEN 2 ELSE 0)
    + (IF "South" \in S THEN 4 ELSE 0) + (IF "West" \in S THEN 8 ELSE 0)

\* The slices that list the same directions as s, in any order.
Reorderings(s) == {p \in Slices : Len(p) = Len(s) /\ Range(p) = Range(s)}

\* C11: for a slice without a repeat, from_directions returns the tile whose
\* mask is the union of the bits of the listed directions, and it returns
\* that same tile for every permutation of the slice.
C11_OrderIndependent ==
    (output # <<>> /\ ~HasRepeat(input)) =>
        /\ output[1] = <<ExitBits(Range(input))>>
        /\ \A p \in Reorderings(input) : from_directions(p) = output[1]

\* C11, witness: [East, North] gave NE (3), as [North, East] does.
C11_Witness ==
    /\ input = <<"East", "North">>
    /\ output = << <<3>> >>
    /\ from_directions(<<"North", "East">>) = <<3>>

Canonical(S) ==
    (IF "North" \in S THEN <<"North">> ELSE <<>>)
    \o (IF "East" \in S THEN <<"East">> ELSE <<>>)
    \o (IF "South" \in S THEN <<"South">> ELSE <<>>)
    \o (IF "West" \in S THEN <<"West">> ELSE <<>>)

\* C13: directions() lists exactly the directions the tile was built from,
\* each once, in the order North, East, South, West, whatever the order of
\* the slice it was built from.
C13_CanonicalDirections ==
    exits # <<>> =>
        /\ exits[1] = Canonical(Range(input))
        /\ Len(exits[1]) = Cardinality(Range(input))
        /\ Len(exits[1]) \in 0..4
        /\ ~HasRepeat(exits[1])

\* C13, witness: the tile built from [West, North, South] lists North,
\* South, West.
C13_Witness ==
    /\ input = <<"West", "North", "South">>
    /\ exits = << <<"North", "South", "West">> >>

C15_DocCommentRejections ==
    (output # <<>> /\ (Len(input) = 0 \/ Len(input) > 4 \/ HasRepeat(input))) =>
        output[1] = None

\* The i-th method of the path is `method`; it was called on trail[i] and
\* returned trail[i + 1].
Called(i, method) == i \in DOMAIN path /\ path[i] = method

\* C16: opposite returns South for North, North for South, West for East and
\* East for West: never its argument, and applied twice its argument again.
C16_OppositeInvolution ==
    \A i \in DOMAIN path :
        /\ Called(i, "opposite") =>
              /\ trail[i + 1] = Facing(trail[i])
              /\ trail[i + 1] # trail[i]
        /\ (Called(i, "opposite") /\ Called(i + 1, "opposite")) =>
              trail[i + 2] = trail[i]

\* C16, witness: opposite was applied to East and then to the West it
\* returned.
C16_Witness ==
    /\ path = <<"opposite", "opposite">>
    /\ trail = <<"East", "West", "East">>

\* A quarter turn to the right, written out.
QuarterTurn(d) ==
    CASE d = "North" -> "East"
      [] d = "East" -> "South"
      [] d = "South" -> "West"
      [] d = "West" -> "North"

\* The methods i .. i + n - 1 of the path are all `method`.
CalledTimes(i, n, method) == \A k \in 0..(n - 1) : Called(i + k, method)

\* C17: rotate_clockwise takes North to East, East to South, South to West
\* and West to North; four applications give the argument back; two
\* applications, like two of rotate_counter_clockwise, give its opposite.
C17_ClockwiseCycle ==
    \A i \in DOMAIN path :
        /\ Called(i, "rotate_clockwise") => trail[i + 1] = QuarterTurn(trail[i])
        /\ CalledTimes(i, 4, "rotate_clockwise") => trail[i + 4] = trail[i]
        /\ CalledTimes(i, 2, "rotate_clockwise") => trail[i + 2] = opposite(trail[i])
        /\ CalledTimes(i, 2, "rotate_counter_clockwise") =>
              trail[i + 2] = opposite(trail[i])

\* C17, witness: four clockwise turns from North went round the compass.
C17_Witness ==
    /\ CalledTimes(1, 4, "rotate_clockwise")
    /\ trail = <<"North", "East", "South", "West", "North">>

\* C18: rotate_counter_clockwise undoes rotate_clockwise and rotate_clockwise
\* undoes rotate_counter_clockwise.
C18_RotationsInverse ==
    \A i \in DOMAIN path :
        /\ (Called(i, "rotate_clockwise") /\ Called(i + 1, "rotate_counter_clockwise")) =>
              trail[i + 2] = trail[i]
        /\ (Called(i, "rotate_counter_clockwise") /\ Called(i + 1, "rotate_clockwise")) =>
              trail[i + 2] = trail[i]

\* C18, witness: a clockwise turn from South to West was undone, and so was
\* the counter-clockwise turn that undid it.
C18_Witness ==
    /\ path = <<"rotate_clockwise", "rotate_counter_clockwise", "rotate_clockwise">>
    /\ trail = <<"South", "West", "South", "West">>

\* C19: in every tile_at call of the default generator the list of collected
\* exits has at most four directions and no repeat, from_directions accepts
\* it, and the call never panics in the unwrap of its result.
C19_CollectedExitsAccepted ==
    \A i \in DOMAIN returned :
        /\ Len(returned[i].tile_exits) <= 4
        /\ ~HasRepeat(returned[i].tile_exits)
        /\ from_directions(returned[i].tile_exits) # None
        /\ returned[i].cause # "unwrap"
        /\ ~returned[i].panicked =>
              <<returned[i].tile.map_tile>> = from_directions(returned[i].tile_exits)

\* C19, witness: with an open neighbour to the north and to the south and
\* none to the east and west, a call collected all four directions and
\* returned a tile with all four exits.
C19_Witness ==
    /\ DOMAIN tiles = {<<0, 1>>, <<0, -1>>}
    /\ returned # <<>>
    /\ returned[1].location = <<0, 0>>
    /\ returned[1].tile_exits = <<"North", "East", "South", "West">>
    /\ ~returned[1].panicked
    /\ returned[1].tile.map_tile = 15

\* C20: on a constructed Map iterate_tiles yields one pair per in-bounds
\* coordinate, x ascending in the outer loop and y ascending in the inner
\* one, which is the order the generator was called in; each pair holds the
\* asset name of the tile stored there; a second iteration yields the same
\* sequence; and the Map holds after it the tiles it held before.
C20_IterateTilesScan ==
    \A i \in DOMAIN listing :
        LET items == listing[i].items
        IN /\ Len(items) = size * size
           /\ {items[k][1] : k \in DOMAIN items} = Cells
           /\ \A k \in DOMAIN items :
                /\ items[k][1] = <<(k - 1) \div size, (k - 1) % size>>
                /\ items[k][1] = given[k].location
                /\ items[k][2] = texture_file_name(tiles[items[k][1]])
           /\ \A j, k \in DOMAIN items : j < k => Before(items[j][1], items[k][1])
           /\ items = listing[1].items
           /\ listing[i].tiles = tiles
           /\ pc = "ready"

\* C20, witness: the Map of side 2 of the MixedGenerator was iterated twice
\* and yielded its four cells in scan order both times.
C20_Witness ==
    /\ size = 2
    /\ Len(listing) = 2
    /\ listing[2].items =
         << <<<<0, 0>>, "room-15-NESW.png">>, <<<<0, 1>>, "room-15-NESW.png">>,
            <<<<1, 0>>, "corridor-15-NESW.png">>, <<<<1, 1>>, "corridor-15-NESW.png">> >>
    /\ listing[1].items = listing[2].items

\* The encodings and the decimal numerals of the masks 0 to 15, written out.
Encodings ==
    <<"ZERO", "N", "E", "NE", "S", "NS", "ES", "NES",
      "W", "NW", "EW", "NEW", "SW", "NSW", "ESW", "NESW">>
Numerals ==
    <<"0", "1", "2", "3", "4", "5", "6", "7",
      "8", "9", "10", "11", "12", "13", "14", "15">>

\* "<style>-<mask>-<encoding>.png" for a tile.
AssetName(t) ==
    (IF t.tile_set = "Room" THEN "room" ELSE "corridor") \o "-"
    \o Numerals[t.map_tile + 1] \o "-" \o Encodings[t.map_tile + 1] \o ".png"

\* C21: the name iterate_tiles yields for a coordinate is
\* "<style>-<mask>-<encoding>.png" of the tile stored there, the encoding
\* being the exits' initials in the order N, E, S, W, or "ZERO"; two
\* coordinates get the same name exactly when they hold the same style and
\* mask, and no two of the 32 tiles share a name.
C21_AssetNameOfTile ==
    \A i \in DOMAIN listing :
        LET items == listing[i].items
        IN /\ \A k \in DOMAIN items : items[k][2] = AssetName(tiles[items[k][1]])
           /\ \A j, k \in DOMAIN items :
                (items[j][2] = items[k][2]) <=> (tiles[items[j][1]] = tiles[items[k][1]])
           /\ \A t, u \in Tiles :
                (texture_file_name(t) = texture_file_name(u)) => t = u

\* C21, witness: every cell of the Map of Room NS tiles was named
\* "room-5-NS.png".
C21_Witness ==
    /\ size = 2
    /\ listing # <<>>
    /\ \A k \in 1..4 : listing[1].items[k][2] = "room-5-NS.png"

\* C21, the other cases: a Map of Corridor EW tiles, and a Map in which a
\* tile without exits was named with the sentinel.
C21_CorridorWitness ==
    /\ listing # <<>>
    /\ size = 1
    /\ listing[1].items[1][2] = "corridor-10-EW.png"

C21_ZeroWitness ==
    /\ listing # <<>>
    /\ size = 2
    /\ listing[1].items[1][2] = "corridor-0-ZERO.png"
    /\ listing[1].items[2][2] # listing[1].items[1][2]

\* C22: a Map built by the default generator with exit probability 1.0 holds
\* only tiles with all four exits, at every point of the construction, the
\* directions without a generated neighbour and those facing the boundary
\* included; with exit probability 0.0 it holds only tiles without an exit.
C22_CertainAndImpossibleExits ==
    generator.kind = "Default" =>
        /\ generator.tile_exit_probability = 100 =>
              \A c \in DOMAIN tiles : \A d \in Direction : HasExit(tiles[c], d)
        /\ generator.tile_exit_probability = 0 =>
              \A c \in DOMAIN tiles : \A d \in Direction : ~HasExit(tiles[c], d)

\* C22, witness: a finished 2 x 2 Map built with exit probability 1.0 and
\* thread entropy, all of its tiles NESW.
C22_Witness ==
    /\ pc = "ready"
    /\ size = 2
    /\ generator.kind = "Default"
    /\ generator.rng.source = "Thread"
    /\ generator.tile_exit_probability = 100
    /\ \A c \in Cells : tiles[c].map_tile = 15

\* C22, the other case: a finished 2 x 2 Map built with exit probability 0.0.
C22_NoExitWitness ==
    /\ pc = "ready"
    /\ size = 2
    /\ generator.kind = "Default"
    /\ generator.tile_exit_probability = 0
    /\ \A c \in Cells : tiles[c].map_tile = 0

\* C23: Map::new always finishes, after exactly size * size generator calls,
\* one for each in-bounds coordinate and none for a coordinate twice: the
\* construction never ends in a panic, never makes more calls than there are
\* cells, and has made one call per cell when it returns.
C23_FinishesAfterOneCallPerCell ==
    /\ pc # "panicked"
    /\ Len(given) <= size * size
    /\ \A j, k \in DOMAIN given : j # k => given[j].location # given[k].location
    /\ pc = "ready" =>
          /\ Len(given) = size * size
          /\ {given[k].location : k \in DOMAIN given} = Cells

\* The thread is inside the locked part of a draw.
InDraw(t) == threads[t].pc \in {"locked", "read"}

Results(rng, m, location) ==
    {[panicked |-> o.panicked, tile |-> o.tile, rng |-> o.rng] :
        o \in tile_at([generator EXCEPT !.rng = rng], m, location)}

\* m without the tiles that are not at one of the four cardinal neighbours
\* of the location.
OnlyNeighbours(m, location) ==
    [c \in {n \in DOMAIN m : \E d \in Direction :
                n = <<location[1] + Step(d)[1], location[2] + Step(d)[2]>>} |-> m[c]]

\* m with NESW rooms at the location itself, at its four diagonal
\* neighbours and two steps to its east, whatever m held there.
WithOtherTiles(m, location) ==
    LET others == {<<location[1] + v[1], location[2] + v[2]>> :
                     v \in {<<0, 0>>, <<1, 1>>, <<1, -1>>, <<-1, 1>>, <<-1, -1>>, <<2, 0>>}}
    IN [c \in DOMAIN m \cup others |-> IF c \in others THEN Tile("Room", 15) ELSE m[c]]

\* m moved by the vector v.
Moved(m, v) ==
    [c \in {<<k[1] + v[1], k[2] + v[2]>> : k \in DOMAIN m} |->
        m[<<c[1] - v[1], c[2] - v[2]>>]]

\* C25: a tile_at call of the default generator leaves the map it is given
\* as it was, and what it can return is the same when the map holds only
\* the tiles at the four cardinal neighbours of the location, when other
\* cells hold other tiles, and when map and location are moved together.
C25_DependsOnNeighboursOnly ==
    \A i \in DOMAIN returned :
        LET r == returned[i]
            here == Results(r.rng, r.tiles, r.location)
            after == IF i = Len(returned) THEN generator.rng ELSE returned[i + 1].rng
        IN /\ r.tiles = tiles
           /\ [panicked |-> r.panicked, tile |-> r.tile, rng |-> after] \in here
           /\ here = Results(r.rng, OnlyNeighbours(r.tiles, r.location), r.location)
           /\ here = Results(r.rng, WithOtherTiles(r.tiles, r.location), r.location)
           /\ here = Results(r.rng, Moved(r.tiles, <<-3, 5>>),
                              <<r.location[1] - 3, r.location[2] + 5>>)

\* C25, witness: a call at (1, 0), none of whose neighbours has a tile,
\* on a map that holds tiles at (1, 0) itself and at three more cells.
C25_Witness ==
    /\ returned # <<>>
    /\ returned[1].location = <<1, 0>>
    /\ ~returned[1].panicked
    /\ DOMAIN tiles = {<<0, 1>>, <<1, 0>>, <<0, -1>>, <<-1, 0>>}
    /\ OnlyNeighbours(tiles, <<1, 0>>) = EmptyMap

\* C26: in a tile_at call of the default generator, a direction whose
\* neighbour has a tile in the given map is open in the returned tile exactly
\* when that neighbour's tile has the facing exit, whatever the exit
\* probability and the random state.
C26_NeighbourDecides ==
    \A i \in DOMAIN returned :
        LET r == returned[i]
        IN ~r.panicked =>
            \A d \in Direction :
                LET n == <<r.location[1] + Step(d)[1], r.location[2] + Step(d)[2]>>
                IN n \in DOMAIN r.tiles =>
                    (HasExit(r.tile, d) <=> HasExit(r.tiles[n], Facing(d)))

\* C26, witness: with exit probability 0.0 and a tile with only an East exit
\* at (0, 0), the tile returned for (1, 0) has a West exit and no other.
C26_Witness ==
    /\ generator.tile_exit_probability = 0
    /\ tiles = Insert(EmptyMap, <<0, 0>>, Tile("Room", 2))
    /\ returned # <<>>
    /\ returned[1].location = <<1, 0>>
    /\ ~returned[1].panicked
    /\ returned[1].tile.map_tile = 8

\* C26, the other case: with exit probability 1.0 the direction towards a
\* neighbour without the facing exit stayed closed.
C26_ClosedWitness ==
    /\ generator.tile_exit_probability = 100
    /\ returned # <<>>
    /\ returned[1].location = <<0, 0>>
    /\ ~returned[1].panicked
    /\ <<0, 1>> \in DOMAIN tiles
    /\ ~HasExit(tiles[<<0, 1>>], "South")
    /\ returned[1].tile.map_tile = 14

\* The cells that k or fewer can_move-legal steps lead to from the cells of S.
RECURSIVE Within(_, _)
Within(S, k) ==
    IF k = 0 THEN S
    ELSE Within(S \cup {b \in Cells : \E a \in S : can_move(tiles, size, a, b)}, k - 1)

\* The cells that can_move-legal steps lead to from a.
Reachable(a) == Within({a}, size * size)

\* C27: the default generator does not make the Map connected: in a
\* finished Map built with exit probability 0.0 no step is legal, so no cell
\* is reachable from another one; and in any finished Map of the default
\* generator a cell whose tile has no exit is reachable from no other cell.
C27_PocketsStayIsolated ==
    (pc = "ready" /\ generator.kind = "Default") =>
        /\ generator.tile_exit_probability = 0 =>
              \A a \in Cells : Reachable(a) = {a}
        /\ \A a \in Cells :
              tiles[a].map_tile = 0 => \A b \in Cells \ {a} : a \notin Reachable(b)

\* C27, witness: a finished 2 x 2 Map drawn with the default probabilities
\* in which (1, 0) is reachable from (0, 0) and (1, 1) is not, although the
\* tile at (1, 1) has an exit.
C27_Witness ==
    /\ pc = "ready"
    /\ size = 2
    /\ generator = [new EXCEPT !.rng = generator.rng]
    /\ <<1, 0>> \in Reachable(<<0, 0>>)
    /\ <<1, 1>> \notin Reachable(<<0, 0>>)
    /\ tiles[<<1, 1>>].map_tile # 0

\* C27, the case the claim names: every tile was drawn with no exits.
C27_NoExitsWitness ==
    /\ pc = "ready"
    /\ size = 2
    /\ generator = [new EXCEPT !.rng = generator.rng]
    /\ \A c \in Cells : tiles[c].map_tile = 0
    /\ \A a, b \in Cells : a # b => b \notin Reachable(a)

\* The tiles the two calls return when the call of thread `first` runs to
\* its end before the call of the other thread starts.
OneAfterTheOther(first) ==
    LET second == CHOOSE t \in ThreadIds : t # first
        fresh == [generator EXCEPT !.rng.draws = 0]
        a == CHOOSE o \in tile_at(fresh, tiles, threads[first].location) : TRUE
        b == CHOOSE o \in tile_at([fresh EXCEPT !.rng = a.rng], tiles,
                                  threads[second].location) : TRUE
    IN [t \in ThreadIds |-> IF t = first THEN a.tile ELSE b.tile]

\* Every draw of thread `first` came before every draw of the other thread.
DrewFirst(first) ==
    \A j, k \in DOMAIN consumed :
        (consumed[j].thread = first /\ consumed[k].thread # first) => j < k

BothReturned == \A t \in ThreadIds : threads[t].pc = "done"

\* C28: the Mutex is held within a single draw only: a thread between two
\* draws of its tile_at call, or after it, does not hold it, so the other
\* thread may draw in between. When the draws of the two calls did not
\* interleave the calls returned the tiles of running one after the other.
C28_LockScopedToDraw ==
    /\ \A t \in ThreadIds : mutex.holder = t => InDraw(t)
    /\ \A t \in ThreadIds :
          (BothReturned /\ DrewFirst(t)) =>
              [u \in ThreadIds |-> threads[u].tile] = OneAfterTheOther(t)

\* C28, witness: the draws of the two calls interleaved and the calls
\* returned tiles that neither order of running them one after the other
\* gives.
C28_Witness ==
    /\ BothReturned
    /\ ~DrewFirst(1) /\ ~DrewFirst(2)
    /\ [u \in ThreadIds |-> threads[u].tile] # OneAfterTheOther(1)
    /\ [u \in ThreadIds |-> threads[u].tile] # OneAfterTheOther(2)

\* C29: on every map, hand-edited tiles, tiles outside the grid and missing
\* entries included, and for any two coordinates, can_move(from, to) gives
\* what can_move(to, from) gives.
C29_CanMoveSymmetric ==
    \A i \in DOMAIN last_query :
        last_query[i].result
            = can_move(tiles, size, last_query[i].to, last_query[i].from)

\* C29, witness: after two edits (0, 0) has the East exit and (1, 0) lacks
\* the West one; the move from (1, 0) to (0, 0) is refused, as the move from
\* (0, 0) to (1, 0) is.
C29_Witness ==
    /\ edits = 2
    /\ last_query # <<>>
    /\ last_query[1].from = <<1, 0>> /\ last_query[1].to = <<0, 0>>
    /\ <<0, 0>> \in DOMAIN tiles /\ <<1, 0>> \in DOMAIN tiles
    /\ tiles[<<0, 0>>].map_tile = 2
    /\ tiles[<<1, 0>>].map_tile = 1
    /\ ~last_query[1].result
    /\ ~can_move(tiles, size, <<0, 0>>, <<1, 0>>)

\* C29, the other cases: a legal move was legal in both directions, and a
\* move between a cell and a missing entry was refused in both.
C29_LegalWitness ==
    /\ edits > 0
    /\ last_query # <<>>
    /\ last_query[1].result
    /\ can_move(tiles, size, last_query[1].to, last_query[1].from)

C29_MissingWitness ==
    /\ last_query # <<>>
    /\ InBounds(last_query[1].from) /\ InBounds(last_query[1].to)
    /\ \E d \in Direction : UnitStep(last_query[1], d)
    /\ last_query[1].from \in DOMAIN tiles
    /\ last_query[1].to \notin DOMAIN tiles
    /\ ~last_query[1].result

\* The directions in which the k-th generator call of Map::new found no
\* tile, respectively a tile, at the neighbouring coordinate.
Neighbour(k, d) == <<given[k].location[1] + Step(d)[1], given[k].location[2] + Step(d)[2]>>
AbsentAt(k) == {d \in Direction : Neighbour(k, d) \notin given[k].keys}
PresentAt(k) == Direction \ AbsentAt(k)

\* The draws made before the k-th call, if every call makes one draw for
\* each absent neighbour and one more.
RECURSIVE DrawsBefore(_)
DrawsBefore(k) == IF k <= 1 THEN 0 ELSE DrawsBefore(k - 1) + Cardinality(AbsentAt(k - 1)) + 1

\* The position of d among the directions of S in the order N, E, S, W.
PlaceIn(S, d) == CHOOSE j \in 1..Len(Canonical(S)) : Canonical(S)[j] = d

\* The tile the k-th call returns when the seeded sequence is consumed one
\* output for each absent neighbour in the order N, E, S, W and then one for
\* the style.
TileInDrawOrder(k) ==
    LET first == DrawsBefore(k)
        seed == generator.rng.seed
        open == {d \in Direction :
                   IF d \in AbsentAt(k)
                   THEN StdRngSample(seed, first + PlaceIn(AbsentAt(k), d) - 1)
                            < generator.tile_exit_probability
                   ELSE HasExit(tiles[Neighbour(k, d)], Facing(d))}
        room == StdRngSample(seed, first + Cardinality(AbsentAt(k)))
                    < generator.room_probability
    IN [tile_set |-> IF room THEN "Room" ELSE "Corridor", map_tile |-> ExitBits(open)]

C30_DirectCallDraws ==
    \A i \in DOMAIN returned :
        LET r == returned[i]
            after == IF i = Len(returned) THEN generator.rng.draws
                     ELSE returned[i + 1].rng.draws
            present == {d \in Direction :
                          <<r.location[1] + Step(d)[1], r.location[2] + Step(d)[2]>>
                              \in DOMAIN r.tiles}
        IN ~r.panicked => after - r.rng.draws = 5 - Cardinality(present)

\* C30, direct calls, witness: a call with all four neighbours present made
\* the style draw alone.
C30_DirectCallWitness ==
    /\ returned # <<>>
    /\ returned[1].location = <<0, 0>>
    /\ ~returned[1].panicked
    /\ Cardinality(DOMAIN tiles) = 4
    /\ generator.rng.draws = 1

====
